---- MODULE Spec2Model ----
(***************************************************************************)
(* State-synchronisation engine of bambulabs_api.PrinterMQTTClient:        *)
(* the merged report snapshot (_data), the readiness gate (__ready), the   *)
(* throttled full-refresh protocol (_update / pushall) and the publish     *)
(* path (__publish_command).                                               *)
(*                                                                         *)
(* Spec       every handler is one atomic action (callers are sequential). *)
(* SpecSteps  __get of one caller, statement by statement.                 *)
(* SpecConc   the same steps run by several caller threads at once (the    *)
(*            code takes no lock).                                         *)
(* SpecCmd    the command operations (start print, calibration, fan        *)
(*            speed, light, print speed, stop) of a Printer and its        *)
(*            PrinterMQTTClient.                                           *)
(* SpecPause  pause_print / resume_print against the reported gcode state. *)
(* SpecGcode  one call of is_valid_gcode or of send_gcode.                 *)
(* SpecAms    process_ams and vt_tray against the reported fragments.      *)
(* SpecMerge  the transport callbacks alone, with every payload shape.     *)
(* SpecFrame  reads, refreshes, commands and the parse next to reports.    *)
(* SpecRefresh  SpecSteps with direct pushall() calls.                     *)
(***************************************************************************)
EXTENDS Integers, Sequences, FiniteSets, TLC

\* ------------------------------------------------------------------ bounds
MaxTime == 2
MaxTimeout == 2
NumThreads == 2
MaxPlate == 2
MaxPieces == 3
MaxList == 2
MaxTrays == 2
MaxLevel == 4
FloatDen == 4
MaxFloatNum == 6

\* ------------------------------------------------------------- vocabulary
Keys == {"gcode_state", "mc_percent"}
Values == {0, 1}
Defaults == {-1, 100}
Threads == 1 .. NumThreads

command_topic == "device/SERIAL/request"
report_topic == "device/SERIAL/report"

PushallDoc == [domain |-> "pushing", command |-> "pushall"]

\* every mapping from some of the report fields to values
Sections == UNION {[S -> Values] : S \in SUBSET Keys}

EmptyMap == [k \in {} |-> 0]

(***************************************************************************)
(* Raw payloads handed to _on_message, by the shape json.loads gives them. *)
(*   kind "garbage"  not parseable: json.loads raises                      *)
(*   kind "scalar"   number / true / false / null                          *)
(*   kind "list"     a list;   has = the string "print" is an element      *)
(*   kind "string"   a string; has = "print" is a substring                *)
(*   kind "map"      an object; has = it has a "print" key, whose value is *)
(*        sec.kind "map"     an object with the fields sec.fields          *)
(*        sec.kind "scalar"  number / true / false / null                  *)
(*        sec.kind "pairs"   a list of [key, value] pairs sec.fields (at   *)
(*                           most one here), followed, if sec.bad, by an   *)
(*                           element that is not a pair                    *)
(*        sec.kind "string"  a string, non-empty iff sec.bad               *)
(***************************************************************************)
NoSec == [kind |-> "none", fields |-> EmptyMap, bad |-> FALSE]

Payloads ==
    {[kind |-> "garbage", has |-> FALSE, sec |-> NoSec],
     [kind |-> "scalar", has |-> FALSE, sec |-> NoSec]}
    \cup {[kind |-> k, has |-> h, sec |-> NoSec] :
              k \in {"list", "string"}, h \in BOOLEAN}
    \cup {[kind |-> "map", has |-> FALSE, sec |-> NoSec]}
    \cup {[kind |-> "map", has |-> TRUE,
           sec |-> [kind |-> "map", fields |-> f, bad |-> FALSE]] :
              f \in Sections}
    \cup {[kind |-> "map", has |-> TRUE,
           sec |-> [kind |-> "scalar", fields |-> EmptyMap, bad |-> TRUE]]}
    \cup {[kind |-> "map", has |-> TRUE,
           sec |-> [kind |-> "pairs", fields |-> f, bad |-> b]] :
              f \in {g \in Sections : Cardinality(DOMAIN g) <= 1},
              b \in BOOLEAN}
    \cup {[kind |-> "map", has |-> TRUE,
           sec |-> [kind |-> "string", fields |-> EmptyMap, bad |-> b]] :
              b \in BOOLEAN}

\* a report of the expected shape: an object whose print section, if any,
\* is an object
WellFormed(p) == p.kind = "map" /\ (p.has => p.sec.kind = "map")

VARIABLES
    strict,             \* self.strict
    pushall_aggressive, \* self.pushall_aggressive
    pushall_timeout,    \* self.pushall_timeout
    data,               \* self._data
    last_update,        \* self._last_update
    connected,          \* self._client.is_connected()
    subscribed,         \* topics the transport was asked to subscribe to
    now,                \* int(datetime.datetime.now().timestamp())
    thr,                \* per caller thread: position inside __get, or
                        \* the call it is about to make and its argument
    sent,               \* messages the step just taken handed to
                        \* self._client.publish, in order
    ret,                \* outcome of the call or callback just made
    last_get,           \* clock reading and refreshes published of the
                        \* latest finished __get of the sequential caller
    last_pub,           \* time of the latest refresh published by
                        \* _on_connect or by a read, -1 before the first
    last_seen,          \* field -> value in the latest report that held it
    ams_hub             \* self.ams_hub: unit id -> slot index -> slot

vars == <<strict, pushall_aggressive, pushall_timeout, data, last_update,
          connected, subscribed, now, thr, sent, ret, last_get, last_pub,
          last_seen, ams_hub>>

config == <<strict, pushall_aggressive, pushall_timeout>>

\* ------------------------------------------------------------ pure helpers
\* ready(): bool(self._data)
ready(d) == DOMAIN d # {}

MergeKeepOld(d, sec) ==
    [k \in DOMAIN d \cup DOMAIN sec |->
        IF k \in DOMAIN d THEN d[k] ELSE sec[k]]

MergeReplace(d, sec) == sec

MergeResetting(d, sec) ==
    [k \in DOMAIN d \cup DOMAIN sec |->
        IF k \in DOMAIN sec THEN sec[k] ELSE 0]

\* self._data |= doc["print"]
Merge(d, sec) ==
    [k \in DOMAIN d \cup DOMAIN sec |->
        IF k \in DOMAIN sec THEN sec[k] ELSE d[k]]

DictGetNone(d, key, default) == IF key \in DOMAIN d THEN d[key] ELSE 0

\* self._data.get(key, default)
DictGet(d, key, default) == IF key \in DOMAIN d THEN d[key] ELSE default

ThrottleNoInterval(last, timeout, current_time) == ~(last > current_time)

\* _update: "if self._last_update + self.pushall_timeout > current_time:
\*              return False"  -- the refresh goes ahead otherwise
ThrottleFires(last, timeout, current_time) ==
    ~(last + timeout > current_time)

Msg(doc) == [topic |-> command_topic, doc |-> doc]

PublishCommandUnchecked(box, doc) == Append(box, Msg(doc))

\* __publish_command: the messages handed to the transport after the call
PublishCommand(box, doc) ==
    IF connected THEN Append(box, Msg(doc)) ELSE box

PublishResultUnchecked(is_published) == is_published

\* __publish_command: what the call returns, given command.is_published()
PublishResult(is_published) == connected /\ is_published

IdleThread ==
    [pc |-> "idle", cur |-> 0, elapsed |-> FALSE, attempts |-> 0,
     pushed |-> 0, arg |-> <<>>]

NoRet ==
    [op |-> "none", raised |-> FALSE, malformed |-> FALSE, value |-> 0,
     default |-> 0, seen |-> FALSE, expect |-> 0, over |-> {},
     elapsed |-> FALSE, ok |-> FALSE,
     gap |-> -1, prev_pushed |-> 0, pub_gap |-> -1,
     args |-> <<>>, error |-> "none", state |-> "none"]

NoGet == [time |-> -1, pushed |-> 0]

\* time since the latest refresh published by _on_connect or a read
PubGap == IF last_pub < 0 THEN -1 ELSE now - last_pub

\* -------------------------------------------------------------------- Init
Init ==
    /\ strict \in BOOLEAN
    /\ pushall_aggressive \in BOOLEAN
    /\ pushall_timeout \in 1 .. MaxTimeout
    /\ data = EmptyMap
    /\ last_update = 0
    /\ connected = FALSE
    /\ subscribed = {}
    /\ now = 0
    /\ thr = [t \in Threads |-> IdleThread]
    /\ sent = <<>>
    /\ ret = NoRet
    /\ last_get = NoGet
    /\ last_pub = -1
    /\ last_seen = EmptyMap
    /\ ams_hub = EmptyMap

\* ------------------------------------------------------------- environment
\* the wall clock read by _update advances
Tick ==
    /\ now < MaxTime
    /\ now' = now + 1
    /\ sent' = <<>>
    /\ ret' = NoRet
    /\ UNCHANGED <<config, ams_hub, data, last_update, connected, subscribed, thr,
                   last_get, last_pub, last_seen>>

\* the transport loses the session
Disconnect ==
    /\ connected
    /\ connected' = FALSE
    /\ sent' = <<>>
    /\ ret' = NoRet
    /\ UNCHANGED <<config, ams_hub, data, last_update, subscribed, now, thr,
                   last_get, last_pub, last_seen>>

\* ------------------------------------------------------ transport callbacks
OnConnectCallsPublishFirst(failure) ==
    IF failure THEN <<>>
    ELSE (IF pushall_aggressive
          THEN <<[call |-> "publish", topic |-> command_topic,
                  doc |-> PushallDoc]>>
          ELSE <<>>)
         \o <<[call |-> "subscribe", topic |-> report_topic]>>

\* the calls _on_connect makes on the transport, in their order
OnConnectCalls(failure) ==
    IF failure THEN <<>>
    ELSE <<[call |-> "subscribe", topic |-> report_topic]>>
         \o (IF pushall_aggressive
             THEN <<[call |-> "publish", topic |-> command_topic,
                     doc |-> PushallDoc]>>
             ELSE <<>>)

\* _on_connect, called by the transport with the result of the handshake
OnConnect(failure) ==
    LET calls == OnConnectCalls(failure)
        at(i) == calls[i]
        subs == {i \in 1 .. Len(calls) : calls[i].call = "subscribe"}
        pubs == SelectSeq(calls, LAMBDA c : c.call = "publish")
    IN  /\ connected' = ~failure
        /\ subscribed' = subscribed \cup {at(i).topic : i \in subs}
        /\ sent' = [i \in 1 .. Len(pubs) |->
                       [topic |-> pubs[i].topic, doc |-> pubs[i].doc]]
        /\ last_pub' = IF Len(pubs) > 0 THEN now ELSE last_pub
        /\ ret' = [NoRet EXCEPT !.op = "on_connect", !.pub_gap = PubGap,
                                !.args = [failure |-> failure,
                                          calls |-> calls]]
        /\ UNCHANGED <<config, ams_hub, data, last_update, now, thr, last_get,
                       last_seen>>

\* json.loads(msg.payload) raises on a payload that is not a document
JsonLoadsRaises(p) == p.kind = "garbage"

\* manual_update: `"print" in doc` raises (doc is not a container)
InRaises(p) == p.kind = "scalar"

\* manual_update: `"print" in doc` is true
HasPrint(p) == p.kind \in {"list", "string", "map"} /\ p.has

\* manual_update: doc["print"] raises (doc is a list or a string)
IndexRaises(p) == p.kind \in {"list", "string"}

\* manual_update: `self._data |= section` raises
IorRaises(sec) ==
    \/ sec.kind = "scalar"
    \/ sec.kind \in {"pairs", "string"} /\ sec.bad

\* the fields `self._data |= section` writes before it returns or raises
IorFields(sec) == IF sec.kind \in {"map", "pairs"} THEN sec.fields
                  ELSE EmptyMap

\* _on_message raises
OnMessageRaises(p) ==
    \/ JsonLoadsRaises(p)
    \/ InRaises(p)
    \/ HasPrint(p) /\ (IndexRaises(p) \/ IorRaises(p.sec))

\* the fields _on_message merges into the snapshot
OnMessageFields(p) ==
    IF ~JsonLoadsRaises(p) /\ ~InRaises(p) /\ HasPrint(p) /\ ~IndexRaises(p)
    THEN IorFields(p.sec) ELSE EmptyMap

\* the record of delivered reports after one more report with fields f
Deliver(f) ==
    [k \in DOMAIN last_seen \cup DOMAIN f |->
        IF k \in DOMAIN f THEN f[k] ELSE last_seen[k]]

\* the fields of a report f that an earlier report held with another value
Overwrites(f) ==
    {k \in DOMAIN f \cap DOMAIN last_seen : last_seen[k] # f[k]}

\* _on_message -> manual_update
OnMessage(p) ==
    /\ data' = Merge(data, OnMessageFields(p))
    /\ last_seen' = Deliver(OnMessageFields(p))
    /\ sent' = <<>>
    /\ ret' = [NoRet EXCEPT !.op = "on_message",
                            !.raised = OnMessageRaises(p),
                            !.malformed = ~WellFormed(p),
                            !.over = Overwrites(OnMessageFields(p))]
    /\ UNCHANGED <<config, ams_hub, last_update, connected, subscribed, now, thr,
                   last_get, last_pub>>

\* --------------------------------------------------------- caller operations
PushallStamping ==
    /\ sent' = PublishCommand(<<>>, PushallDoc)
    /\ last_update' = now
    /\ \E is_published \in BOOLEAN :
          ret' = [NoRet EXCEPT !.op = "pushall",
                               !.ok = PublishResult(is_published)]
    /\ UNCHANGED <<config, ams_hub, data, connected, subscribed, now,
                   thr, last_get, last_pub, last_seen>>

\* pushall(), called directly
Pushall ==
    /\ sent' = PublishCommand(<<>>, PushallDoc)
    /\ \E is_published \in BOOLEAN :
          ret' = [NoRet EXCEPT !.op = "pushall",
                               !.ok = PublishResult(is_published)]
    /\ UNCHANGED <<config, ams_hub, data, last_update, connected, subscribed, now,
                   thr, last_get, last_pub, last_seen>>

GateRaisesAlways == ~ready(data)

GateRaisesNever == FALSE

\* the __ready wrapper raises instead of calling the wrapped method
GateRaises == ~ready(data) /\ strict

\* __get(key, default) with its __ready wrapper, _update and pushall
Get(key, default) ==
    LET elapsed == ThrottleFires(last_update, pushall_timeout, now)
        fires == ~GateRaises /\ elapsed
    IN  /\ last_update' = IF fires THEN now ELSE last_update
        /\ sent' = IF fires THEN PublishCommand(<<>>, PushallDoc) ELSE <<>>
        /\ ret' = [NoRet EXCEPT
                     !.op = "get",
                     !.raised = GateRaises,
                     !.value = IF GateRaises THEN 0
                               ELSE DictGet(data, key, default),
                     !.default = default,
                     !.seen = key \in DOMAIN last_seen,
                     !.expect = IF key \in DOMAIN last_seen
                                THEN last_seen[key] ELSE 0,
                     !.over = IF ret.op = "on_message"
                              THEN ret.over \cap {key} ELSE {},
                     !.elapsed = elapsed,
                     !.gap = IF last_get.time < 0 THEN -1
                             ELSE now - last_get.time,
                     !.prev_pushed = last_get.pushed,
                     !.pub_gap = PubGap]
        /\ last_get' = [time |-> now, pushed |-> Len(sent')]
        /\ last_pub' = IF Len(sent') > 0 THEN now ELSE last_pub
        /\ UNCHANGED <<config, ams_hub, data, connected, subscribed, now, thr,
                       last_seen>>

Next ==
    \/ Tick
    \/ Disconnect
    \/ \E failure \in BOOLEAN : OnConnect(failure)
    \/ \E p \in Payloads : OnMessage(p)
    \/ Pushall
    \/ \E key \in Keys, default \in Defaults : Get(key, default)

Spec == Init /\ [][Next]_vars

\* ------------------------------------------------ __get, step by step
\* A caller thread runs get_printer_state(), that is __get("gcode_state", -1);
\* it can be preempted between any two of the steps below.

\* the reports that carry the field get_printer_state() reads, and no other
StateReports ==
    {p \in Payloads : WellFormed(p) /\ p.has
                      /\ DOMAIN p.sec.fields = {"gcode_state"}}

\* the __ready wrapper: raise, or enter __get and _update, which reads the
\* clock: current_time = int(datetime.datetime.now().timestamp())
T_Call(t) ==
    /\ thr[t].pc = "idle"
    /\ IF GateRaises
       THEN /\ thr' = [thr EXCEPT ![t] = IdleThread]
            /\ ret' = [NoRet EXCEPT !.op = "get", !.raised = TRUE]
       ELSE /\ thr' = [thr EXCEPT ![t] = [IdleThread EXCEPT !.pc = "check",
                                                            !.cur = now]]
            /\ ret' = NoRet
    /\ sent' = <<>>
    /\ UNCHANGED <<config, ams_hub, data, last_update, connected, subscribed, now,
                   last_get, last_pub, last_seen>>

\* _update: the throttle test
T_Check(t) ==
    /\ thr[t].pc = "check"
    /\ LET e == ThrottleFires(last_update, pushall_timeout, thr[t].cur)
       IN  thr' = [thr EXCEPT ![t].pc = IF e THEN "set" ELSE "read",
                              ![t].elapsed = e]
    /\ sent' = <<>>
    /\ ret' = NoRet
    /\ UNCHANGED <<config, ams_hub, data, last_update, connected, subscribed, now,
                   last_get, last_pub, last_seen>>

\* _update: self._last_update = current_time
T_Set(t) ==
    /\ thr[t].pc = "set"
    /\ last_update' = thr[t].cur
    /\ thr' = [thr EXCEPT ![t].pc = "push"]
    /\ sent' = <<>>
    /\ ret' = NoRet
    /\ UNCHANGED <<config, ams_hub, data, connected, subscribed, now, last_get,
                   last_pub, last_seen>>

\* _update: return self.pushall()
T_Push(t) ==
    /\ thr[t].pc = "push"
    /\ sent' = PublishCommand(<<>>, PushallDoc)
    /\ thr' = [thr EXCEPT ![t].pc = "read",
                          ![t].attempts = @ + 1,
                          ![t].pushed = @ + Len(sent')]
    /\ ret' = NoRet
    /\ UNCHANGED <<config, ams_hub, data, last_update, connected, subscribed, now,
                   last_get, last_pub, last_seen>>

\* __get: return self._data.get(key, default)
T_Read(t) ==
    /\ thr[t].pc = "read"
    /\ thr' = [thr EXCEPT ![t] = IdleThread]
    /\ sent' = <<>>
    /\ ret' = [NoRet EXCEPT
                 !.op = "get",
                 !.value = DictGet(data, "gcode_state", -1),
                 !.default = -1,
                 !.seen = "gcode_state" \in DOMAIN last_seen,
                 !.expect = IF "gcode_state" \in DOMAIN last_seen
                            THEN last_seen["gcode_state"] ELSE 0,
                 !.elapsed = thr[t].elapsed]
    /\ UNCHANGED <<config, ams_hub, data, last_update, connected, subscribed, now,
                   last_get, last_pub, last_seen>>

NextConc ==
    \/ Tick
    \/ Disconnect
    \/ \E failure \in BOOLEAN : OnConnect(failure)
    \/ \E p \in StateReports : OnMessage(p)
    \/ \E t \in Threads : T_Call(t)
    \/ \E t \in Threads : T_Check(t)
    \/ \E t \in Threads : T_Set(t)
    \/ \E t \in Threads : T_Push(t)
    \/ \E t \in Threads : T_Read(t)

SpecConc == Init /\ [][NextConc]_vars

\* the caller of the single-threaded program
MainThread == CHOOSE t \in Threads : \A u \in Threads : t <= u

NextSteps ==
    \/ Tick
    \/ Disconnect
    \/ \E failure \in BOOLEAN : OnConnect(failure)
    \/ \E p \in StateReports : OnMessage(p)
    \/ T_Call(MainThread)
    \/ T_Check(MainThread)
    \/ T_Set(MainThread)
    \/ T_Push(MainThread)
    \/ T_Read(MainThread)

SpecSteps == Init /\ [][NextSteps]_vars

NextRefresh ==
    \/ NextSteps
    \/ Pushall

\* the stepwise read next to the refreshes of _on_connect and pushall()
SpecRefresh == Init /\ [][NextRefresh]_vars

\* some __get call
GetStep == \E key \in Keys, default \in Defaults : Get(key, default)

\* ------------------------------------------------------- command dispatcher
(***************************************************************************)
(* Argument values of the calls, tagged with their Python type.            *)
(***************************************************************************)
JNull == [t |-> "null", b |-> FALSE, l |-> <<>>]

JBool(b) == [t |-> "bool", b |-> b, l |-> <<>>]

JList(l) == [t |-> "list", b |-> FALSE, l |-> l]

\* bool(x), and the x of "if x" / "not x"
Truthy(j) ==
    IF j.t = "bool" THEN j.b ELSE IF j.t = "list" THEN j.l # <<>> ELSE FALSE

\* list(x) raises TypeError for an x that is not iterable
ListRaises(j) == j.t # "list"

Filenames == {"a.3mf", "dir/b c.3mf"}
Plates == 1 .. MaxPlate
AmsMappings == {JList(<<0>>), JList(<<1, 0>>)}
SkipLists == {JNull, JList(<<>>), JList(<<3>>)}

\* Printer.__init__: PrinterMQTTClient(ip_address, access_code, serial) with
\* its defaults (strict off, pushall on connect, the default timeout)
InitPrinter ==
    /\ Init
    /\ ~strict
    /\ pushall_aggressive
    /\ pushall_timeout = MaxTimeout

CommandClearing(op, args, doc) ==
    /\ sent' = PublishCommand(<<>>, doc)
    /\ \E is_published \in BOOLEAN :
          ret' = [NoRet EXCEPT !.op = op, !.args = args,
                               !.ok = PublishResult(is_published)]
    /\ data' = EmptyMap
    /\ UNCHANGED <<config, ams_hub, last_update, connected, subscribed, now,
                   thr, last_get, last_pub, last_seen>>

\* a call that ends in "return self.__publish_command(doc)"
Command(op, args, doc) ==
    /\ sent' = PublishCommand(<<>>, doc)
    /\ \E is_published \in BOOLEAN :
          ret' = [NoRet EXCEPT !.op = op, !.args = args,
                               !.ok = PublishResult(is_published)]
    /\ UNCHANGED <<config, ams_hub, data, last_update, connected, subscribed, now,
                   thr, last_get, last_pub, last_seen>>

\* a call that raises before it reaches __publish_command
Raise(op, args, error) ==
    /\ sent' = <<>>
    /\ ret' = [NoRet EXCEPT !.op = op, !.args = args, !.raised = TRUE,
                            !.error = error]
    /\ UNCHANGED <<config, ams_hub, data, last_update, connected, subscribed, now,
                   thr, last_get, last_pub, last_seen>>

StopDoc == [domain |-> "print", command |-> "stop"]

\* stop_print
StopPrint == Command("stop_print", <<>>, StopDoc)

SkipKept(skip_objects) == skip_objects

\* start_print_3mf: "if skip_objects is not None and not skip_objects:
\*                      skip_objects = None"
SkipNormalised(skip_objects) ==
    IF skip_objects.t # "null" /\ ~Truthy(skip_objects)
    THEN JNull ELSE skip_objects

PlateParamRaw(plate_number) == "Metadata/plate_.gcode"

\* f"Metadata/plate_{int(plate_number)}.gcode"
PlateParam(plate_number) ==
    "Metadata/plate_" \o ToString(plate_number) \o ".gcode"

\* f"ftp:///{filename}"
FtpUrl(filename) == "ftp:///" \o filename

\* the document start_print_3mf builds
ProjectFileDoc(filename, plate_number, bed_leveling, flow_calibration, vibration_calibration, bed_type, use_ams, ams_mapping, skip_objects) ==
    [domain |-> "print",
     command |-> "project_file",
     param |-> PlateParam(plate_number),
     file |-> filename,
     bed_leveling |-> bed_leveling,
     bed_type |-> bed_type,
     flow_cali |-> flow_calibration,
     vibration_cali |-> vibration_calibration,
     url |-> FtpUrl(filename),
     layer_inspect |-> JBool(FALSE),
     sequence_id |-> "10000000",
     use_ams |-> JBool(Truthy(use_ams)),
     ams_mapping |-> ams_mapping,
     skip_objects |-> SkipNormalised(skip_objects)]

\* start_print_3mf, called as op with the arguments args
StartPrint3mfAs(op, args, filename, plate_number, bed_leveling, flow_calibration, vibration_calibration, bed_type, use_ams, ams_mapping, skip_objects) ==
    IF ListRaises(ams_mapping)
    THEN Raise(op, args, "TypeError")
    ELSE Command(op, args,
                 ProjectFileDoc(filename, plate_number, bed_leveling,
                                flow_calibration, vibration_calibration,
                                bed_type, use_ams, ams_mapping,
                                skip_objects))

\* PrinterMQTTClient.start_print_3mf(filename, plate_number, use_ams=...,
\* ams_mapping=..., skip_objects=...), the other parameters at their defaults
StartPrint3mf(filename, plate_number, use_ams, ams_mapping, skip_objects) ==
    StartPrint3mfAs("start_print_3mf",
                    [filename |-> filename, plate_number |-> plate_number,
                     use_ams |-> use_ams, ams_mapping |-> ams_mapping,
                     skip_objects |-> skip_objects],
                    filename, plate_number, JBool(TRUE), JBool(FALSE),
                    JBool(FALSE), "textured_plate", use_ams, ams_mapping,
                    skip_objects)

\* Printer.start_print_min: the five arguments are passed on by position
StartPrintMin(filename, plate_number, use_ams, ams_mapping, skip_objects) ==
    StartPrint3mfAs("start_print_min",
                    [filename |-> filename, plate_number |-> plate_number,
                     use_ams |-> use_ams, ams_mapping |-> ams_mapping,
                     skip_objects |-> skip_objects],
                    filename, plate_number, use_ams, ams_mapping,
                    skip_objects, "textured_plate", JBool(TRUE),
                    JList(<<0>>), JNull)

RECURSIVE BitOr(_, _)
\* a | b
BitOr(a, b) ==
    IF a = 0 THEN b
    ELSE IF b = 0 THEN a
    ELSE (IF a % 2 = 1 \/ b % 2 = 1 THEN 1 ELSE 0)
             + 2 * BitOr(a \div 2, b \div 2)

\* 1 << k
Bit(k) == 2 ^ k

CalibrationBitmaskByPosition(bed_levelling, motor_noise_cancellation, vibration_compensation) ==
    LET b1 == IF bed_levelling THEN BitOr(0, Bit(1)) ELSE 0
        b2 == IF motor_noise_cancellation THEN BitOr(b1, Bit(2)) ELSE b1
    IN  IF vibration_compensation THEN BitOr(b2, Bit(3)) ELSE b2

\* calibration: the bitmask built from the three flags
CalibrationBitmask(bed_levelling, motor_noise_cancellation, vibration_compensation) ==
    LET b1 == IF bed_levelling THEN BitOr(0, Bit(1)) ELSE 0
        b2 == IF vibration_compensation THEN BitOr(b1, Bit(2)) ELSE b1
    IN  IF motor_noise_cancellation THEN BitOr(b2, Bit(3)) ELSE b2

CalibrationDoc(bitmask) ==
    [domain |-> "print", command |-> "calibration", option |-> bitmask]

\* PrinterMQTTClient.calibration, called as op
CalibrationAs(op, bed_levelling, motor_noise_cancellation, vibration_compensation) ==
    Command(op,
            [bed |-> bed_levelling, motor |-> motor_noise_cancellation,
             vibration |-> vibration_compensation],
            CalibrationDoc(CalibrationBitmask(bed_levelling,
                                              motor_noise_cancellation,
                                              vibration_compensation)))

Calibration(bed_levelling, motor_noise_cancellation, vibration_compensation) ==
    CalibrationAs("calibration", bed_levelling, motor_noise_cancellation,
                  vibration_compensation)

\* Printer.calibrate_printer: the three flags are passed on by position
CalibratePrinter(bed_level, motor_noise_calibration, vibration_compensation) ==
    CalibrationAs("calibrate_printer", bed_level, motor_noise_calibration,
                  vibration_compensation)

(***************************************************************************)
(* Fan speeds.  An int argument is [t |-> "int", n |-> i]; a float         *)
(* argument is [t |-> "float", n |-> k], the float k / FloatDen.           *)
(***************************************************************************)
FanInts == {-1, 0, 1, 128, 255, 256}

Speeds ==
    {[t |-> "int", n |-> i] : i \in FanInts}
        \cup {[t |-> "float", n |-> k] : k \in -1 .. MaxFloatNum}

Fans == {1, 2, 3}

\* round(n / d) for d > 0: to the nearest integer, a tie to the even one
Round(n, d) ==
    LET q == n \div d
        r == n % d
    IN  IF 2 * r < d THEN q
        ELSE IF 2 * r > d THEN q + 1
        ELSE IF q % 2 = 0 THEN q ELSE q + 1

\* "speed > 255 or speed < 0" / "speed < 0 or speed > 1"
FanSpeedOutOfRange(speed) ==
    IF speed.t = "int" THEN speed.n > 255 \/ speed.n < 0
    ELSE speed.n < 0 \/ speed.n > FloatDen

\* 255 / speed raises ZeroDivisionError for the float 0.0
FanSpeedDivides(speed) == speed.t = "float" /\ speed.n = 0

\* the S value of an accepted speed: the int itself, round(255 / speed)
\* for a float
FanSpeedValue(speed) ==
    IF speed.t = "int" THEN speed.n ELSE Round(255 * FloatDen, speed.n)

\* f"M106 P{fan_num} S{speed}\n"
FanLine(fan_num, value) ==
    "M106 P" \o ToString(fan_num) \o " S" \o ToString(value) \o "\n"

\* __send_gcode_line: the document built around f"{gcode_command}"
GcodeLineDoc(gcode_command) ==
    [domain |-> "print", command |-> "gcode_line", param |-> gcode_command]

\* _set_fan_speed, reached from set_part_fan_speed (fan_num 1),
\* set_aux_fan_speed (2) and set_chamber_fan_speed (3)
SetFanSpeed(speed, fan_num) ==
    LET args == [speed |-> speed, fan_num |-> fan_num]
    IN  IF FanSpeedOutOfRange(speed)
        THEN Raise("set_fan_speed", args, "ValueError")
        ELSE IF FanSpeedDivides(speed)
        THEN Raise("set_fan_speed", args, "ZeroDivisionError")
        ELSE Command("set_fan_speed", args,
                     GcodeLineDoc(FanLine(fan_num, FanSpeedValue(speed))))

LightDocElsewhere(mode) == [domain |-> "light", led_mode |-> mode]

\* turn_light_on / turn_light_off: {"system": {"led_mode": mode}}
LightDoc(mode) == [domain |-> "system", led_mode |-> mode]

TurnLight(mode) == Command("turn_light", [mode |-> mode], LightDoc(mode))

Levels == -1 .. MaxLevel

\* {"print": {"command": "print_speed", "param": f"{speed_lvl}"}}
PrintSpeedDoc(speed_lvl) ==
    [domain |-> "print", command |-> "print_speed",
     param |-> ToString(speed_lvl)]

\* PrinterMQTTClient.set_print_speed_lvl, called as op
SetPrintSpeedLvlAs(op, args, speed_lvl) ==
    Command(op, args, PrintSpeedDoc(speed_lvl))

SetPrintSpeedLvl(speed_lvl) ==
    SetPrintSpeedLvlAs("set_print_speed_lvl",
                       [speed_lvl |-> speed_lvl, asserts |-> FALSE],
                       speed_lvl)

\* Printer.set_print_speed: "assert 0 <= speed_lvl <= 3", a statement the
\* interpreter executes only when it runs without -O (asserts)
SetPrintSpeed(speed_lvl, asserts) ==
    LET args == [speed_lvl |-> speed_lvl, asserts |-> asserts]
    IN  IF asserts /\ ~(0 <= speed_lvl /\ speed_lvl <= 3)
        THEN Raise("set_print_speed", args, "AssertionError")
        ELSE SetPrintSpeedLvlAs("set_print_speed", args, speed_lvl)

NextCmd ==
    \/ Disconnect
    \/ \E failure \in BOOLEAN : OnConnect(failure)
    \/ \E p \in StateReports : OnMessage(p)
    \/ Pushall
    \/ StopPrint
    \/ \E filename \in Filenames, plate_number \in Plates,
          use_ams \in BOOLEAN, ams_mapping \in AmsMappings,
          skip_objects \in SkipLists :
            \/ StartPrint3mf(filename, plate_number, JBool(use_ams),
                             ams_mapping, skip_objects)
            \/ StartPrintMin(filename, plate_number, JBool(use_ams),
                             ams_mapping, skip_objects)
    \/ \E bed \in BOOLEAN, motor \in BOOLEAN, vibration \in BOOLEAN :
            \/ Calibration(bed, motor, vibration)
            \/ CalibratePrinter(bed, motor, vibration)
    \/ \E speed \in Speeds, fan_num \in Fans : SetFanSpeed(speed, fan_num)
    \/ \E mode \in {"on", "off"} : TurnLight(mode)
    \/ \E speed_lvl \in Levels :
            \/ SetPrintSpeedLvl(speed_lvl)
            \/ \E asserts \in BOOLEAN : SetPrintSpeed(speed_lvl, asserts)

\* the command operations of a Printer and of its PrinterMQTTClient
SpecCmd == InitPrinter /\ [][NextCmd]_vars

\* ---------------------------------------------------------- pause / resume
\* GcodeState(code): the state a reported code decodes to; a code that is
\* not known, the default -1 of an unreported field included, decodes to
\* "UNKNOWN".  Of the report values of this model, 0 is the code of the
\* running state and 1 the code of the paused state.
GcodeState(code) ==
    IF code = 0 THEN "RUNNING" ELSE IF code = 1 THEN "PAUSE" ELSE "UNKNOWN"

PauseDoc == [domain |-> "print", command |-> "pause"]

ResumeDoc == [domain |-> "print", command |-> "resume"]

NoShortCut(state, already) == FALSE

\* "if self.get_printer_state() == GcodeState.PAUSE: return True"
ShortCut(state, already) == state = already

\* pause_print / resume_print: get_printer_state() (the gate, _update, the
\* read of gcode_state), then either "return True" or __publish_command
PauseOrResume(op, already, doc) ==
    LET elapsed == ThrottleFires(last_update, pushall_timeout, now)
        fires == ~GateRaises /\ elapsed
        refresh == IF fires THEN PublishCommand(<<>>, PushallDoc) ELSE <<>>
        state == GcodeState(DictGet(data, "gcode_state", -1))
        done == ~GateRaises /\ ShortCut(state, already)
    IN  /\ last_update' = IF fires THEN now ELSE last_update
        /\ sent' = IF GateRaises \/ done THEN refresh
                   ELSE PublishCommand(refresh, doc)
        /\ \E is_published \in BOOLEAN :
              ret' = [NoRet EXCEPT
                        !.op = op, !.raised = GateRaises,
                        !.state = IF GateRaises THEN "none" ELSE state,
                        !.elapsed = elapsed,
                        !.ok = /\ ~GateRaises
                               /\ (done \/ PublishResult(is_published))]
        /\ last_get' = [time |-> now, pushed |-> Len(refresh)]
        /\ last_pub' = IF Len(refresh) > 0 THEN now ELSE last_pub
        /\ UNCHANGED <<config, ams_hub, data, connected, subscribed, now, thr,
                       last_seen>>

PausePrint == PauseOrResume("pause_print", "PAUSE", PauseDoc)

ResumePrint == PauseOrResume("resume_print", "RUNNING", ResumeDoc)

NextPause ==
    \/ Tick
    \/ Disconnect
    \/ \E failure \in BOOLEAN : OnConnect(failure)
    \/ \E p \in StateReports : OnMessage(p)
    \/ PausePrint
    \/ ResumePrint

\* pause_print and resume_print against the reported gcode state
SpecPause == Init /\ [][NextPause]_vars

\* ------------------------------------------------------------------- G-code
(***************************************************************************)
(* A str is the sequence of its characters.                                *)
(***************************************************************************)
Digits == {"0", "1", "2", "3", "4", "5", "6", "7", "8", "9"}

Uppers ==
    {"A", "B", "C", "D", "E", "F", "G", "H", "I", "J", "K", "L", "M", "N",
     "O", "P", "Q", "R", "S", "T", "U", "V", "W", "X", "Y", "Z"}

\* the characters str.strip() and str.split() treat as whitespace
Whitespace == {" ", "\t", "\n", "\r"}

\* the pieces the lines of the model are put together from
Pieces ==
    {<<"G", "1">>,
     <<"M", "1", "0", "4">>,
     <<" ", "X", "1", "0">>,
     <<" ", "Y", "-", "5", ".", "5">>,
     <<"Y", "5">>,
     <<" ", "S", "2", "0", "0">>,
     <<" ", ";", " ", "s", "e", "t", " ", "t", "e", "m", "p">>,
     <<";", " ", "c", "o", "m", "m", "e", "n", "t", " ", "o", "n", "l",
       "y">>,
     <<" ">>, <<"G">>, <<".">>, <<"-">>, <<"x">>, <<"\n">>}

RECURSIVE Concats(_)
\* the strings made of at most n pieces
Concats(n) ==
    IF n = 0 THEN {<<>>}
    ELSE Concats(n - 1) \cup {l \o p : l \in Concats(n - 1), p \in Pieces}

Lines == Concats(MaxPieces)

\* the lines the lists handed to send_gcode are made of
ListLines ==
    {<<"G", "1", " ", "X", "1", "0">>,
     <<"M", "1", "0", "4", " ", "S", "2", "0", "0">>,
     <<"G", "1", " ", "X", "1", "0", "Y", "5">>,
     <<"G", "1", "\n", "X", "1", "0">>,
     <<"G", "1", " ", ";", "\n", "x">>,
     <<>>}

Lists == UNION {[1 .. n -> ListLines] : n \in 0 .. MaxList}

PyStr(s) == [t |-> "str", s |-> s, l |-> <<>>]

PyList(l) == [t |-> "list", s |-> <<>>, l |-> l]

PyNone == [t |-> "none", s |-> <<>>, l |-> <<>>]

\* line.split(";")[0]
BeforeSemicolon(line) ==
    LET at == {i \in 1 .. Len(line) : line[i] = ";"}
    IN  IF at = {} THEN line
        ELSE SubSeq(line, 1, (CHOOSE i \in at : \A j \in at : i <= j) - 1)

\* s.strip()
Strip(s) ==
    LET ink == {i \in 1 .. Len(s) : s[i] \notin Whitespace}
    IN  IF ink = {} THEN <<>>
        ELSE SubSeq(s, CHOOSE i \in ink : \A j \in ink : i <= j,
                       CHOOSE i \in ink : \A j \in ink : i >= j)

RECURSIVE Split(_)
\* s.split(): the maximal runs of s free of whitespace, in order
Split(s) ==
    IF s = <<>> THEN <<>>
    ELSE IF s[1] \in Whitespace THEN Split(Tail(s))
    ELSE LET stops == {i \in 1 .. Len(s) : s[i] \in Whitespace}
             n == IF stops = {} THEN Len(s)
                  ELSE (CHOOSE i \in stops : \A j \in stops : i <= j) - 1
         IN  <<SubSeq(s, 1, n)>> \o Split(SubSeq(s, n + 1, Len(s)))

\* match(r"^[GM]\d+", line)
MatchCommand(line) ==
    /\ Len(line) >= 2
    /\ line[1] \in {"G", "M"}
    /\ line[2] \in Digits

\* the number of digits s starts with
LeadingDigits(s) ==
    LET other == {i \in 1 .. Len(s) : s[i] \notin Digits}
    IN  IF other = {} THEN Len(s)
        ELSE (CHOOSE i \in other : \A j \in other : i <= j) - 1

\* match(r"^[A-Z]-?\d+(\.\d+)?$", token)
MatchParam(token) ==
    /\ Len(token) >= 1
    /\ token[1] \in Uppers
    /\ LET r1 == Tail(token)
           r2 == IF r1 # <<>> /\ r1[1] = "-" THEN Tail(r1) ELSE r1
           n == LeadingDigits(r2)
           r3 == SubSeq(r2, n + 1, Len(r2))
       IN  /\ n >= 1
           /\ \/ r3 = <<>>
              \/ /\ r3[1] = "."
                 /\ Len(r3) >= 2
                 /\ LeadingDigits(Tail(r3)) = Len(r3) - 1

is_valid_gcode_keeping_comment(line) ==
    LET stripped == Strip(line)
        tokens == Split(stripped)
    IN  /\ stripped # <<>>
        /\ MatchCommand(stripped)
        /\ \A i \in 2 .. Len(tokens) : MatchParam(tokens[i])

\* is_valid_gcode
is_valid_gcode(line) ==
    LET stripped == Strip(BeforeSemicolon(line))
        tokens == Split(stripped)
    IN  /\ stripped # <<>>
        /\ MatchCommand(stripped)
        /\ \A i \in 2 .. Len(tokens) : MatchParam(tokens[i])

RECURSIVE Join(_)
\* "\n".join(list)
Join(list) ==
    IF list = <<>> THEN <<>>
    ELSE IF Len(list) = 1 THEN list[1]
    ELSE list[1] \o <<"\n">> \o Join(Tail(list))

AnyInvalidUpToFirst(list) == list # <<>> /\ ~is_valid_gcode(list[1])

\* any(not is_valid_gcode(g) for g in gcode_command)
AnyInvalid(list) == \E i \in 1 .. Len(list) : ~is_valid_gcode(list[i])

\* the calls a caller may be about to make
Calls ==
    {[IdleThread EXCEPT !.pc = "is_valid_gcode", !.arg = PyStr(line)] :
         line \in Lines}
      \cup {[IdleThread EXCEPT !.pc = "send_gcode", !.arg = PyStr(line)] :
                line \in ListLines}
      \cup {[IdleThread EXCEPT !.pc = "send_gcode", !.arg = PyList(list)] :
                list \in Lists}
      \cup {[IdleThread EXCEPT !.pc = "send_gcode", !.arg = PyNone]}

\* a Printer whose caller is about to make one of the calls
InitGcode ==
    /\ strict = FALSE
    /\ pushall_aggressive = TRUE
    /\ pushall_timeout = MaxTimeout
    /\ data = EmptyMap
    /\ last_update = 0
    /\ connected = FALSE
    /\ subscribed = {}
    /\ now = 0
    /\ \E call \in Calls :
          thr = [t \in Threads |-> IF t = MainThread THEN call
                                   ELSE IdleThread]
    /\ sent = <<>>
    /\ ret = NoRet
    /\ last_get = NoGet
    /\ last_pub = -1
    /\ last_seen = EmptyMap
    /\ ams_hub = EmptyMap

\* the caller calls is_valid_gcode(line)
IsValidGcode(t) ==
    /\ thr[t].pc = "is_valid_gcode"
    /\ thr' = [thr EXCEPT ![t] = IdleThread]
    /\ sent' = <<>>
    /\ ret' = [NoRet EXCEPT !.op = "is_valid_gcode", !.args = thr[t].arg,
                            !.ok = is_valid_gcode(thr[t].arg.s)]
    /\ UNCHANGED <<config, ams_hub, data, last_update, connected, subscribed, now,
                   last_get, last_pub, last_seen>>

\* the caller calls send_gcode(gcode_command), Printer.gcode included
SendGcode(t) ==
    /\ thr[t].pc = "send_gcode"
    /\ thr' = [thr EXCEPT ![t] = IdleThread]
    /\ LET gcode_command == thr[t].arg
           invalid == IF gcode_command.t = "str"
                      THEN ~is_valid_gcode(gcode_command.s)
                      ELSE gcode_command.t = "list"
                               /\ AnyInvalid(gcode_command.l)
           line == IF gcode_command.t = "str" THEN gcode_command.s
                   ELSE Join(gcode_command.l)
           returns_none == gcode_command.t \notin {"str", "list"}
       IN  /\ sent' = IF invalid \/ returns_none THEN <<>>
                      ELSE PublishCommand(<<>>, GcodeLineDoc(line))
           /\ \E is_published \in BOOLEAN :
                 ret' = [NoRet EXCEPT
                           !.op = "send_gcode", !.args = gcode_command,
                           !.raised = invalid,
                           !.error = IF invalid THEN "ValueError"
                                     ELSE "none",
                           !.ok = /\ ~invalid
                                  /\ ~returns_none
                                  /\ PublishResult(is_published)]
    /\ UNCHANGED <<config, ams_hub, data, last_update, connected, subscribed, now,
                   last_get, last_pub, last_seen>>

NextGcode ==
    \/ Disconnect
    \/ \E failure \in BOOLEAN : OnConnect(failure)
    \/ IsValidGcode(MainThread)
    \/ SendGcode(MainThread)

\* one call of the G-code validator or of send_gcode
SpecGcode == InitGcode /\ [][NextGcode]_vars

\* ------------------------------------------------------ filament storage
(***************************************************************************)
(* The "ams" and "vt_tray" fields of a report.  A dict is the function     *)
(* from its keys to their values; None is the value __get returns for a    *)
(* field no report held.                                                   *)
(***************************************************************************)
None == [None |-> TRUE]

\* the tray dicts of the reports
Trays ==
    {[id |-> "1", n |-> "PLA"], [n |-> ""], [id |-> "0"]}

TrayLists == UNION {[1 .. n -> Trays] : n \in 0 .. MaxTrays}

\* the unit dicts of the reports
Units ==
    {[tray |-> trays] : trays \in TrayLists}
        \cup {[id |-> "1", tray |-> <<[n |-> "PLA"]>>], [id |-> "1"]}

PairUnits == {[tray |-> <<[n |-> "PETG"]>>], [id |-> "1"]}

UnitLists ==
    {<<>>} \cup {<<v>> : v \in Units}
        \cup {<<v, w>> : v \in PairUnits, w \in PairUnits}

\* the values of the "ams" field
AmsFragments ==
    {EmptyMap, [ams_exist_bits |-> "1"],
     [ams_exist_bits |-> "0", ams |-> <<[tray |-> <<[n |-> "PLA"]>>]>>],
     [ams |-> <<[tray |-> <<[n |-> "PLA"]>>]>>]}
        \cup {[ams_exist_bits |-> "1", ams |-> units] : units \in UnitLists}

\* the values of the "vt_tray" field
VtFragments == {[id |-> "254", n |-> "PLA"], [id |-> "254", n |-> ""]}

\* the reports that carry one of the two fields
StorageReports ==
    {[kind |-> "map", has |-> TRUE,
      sec |-> [kind |-> "map", fields |-> [ams |-> f], bad |-> FALSE]] :
         f \in AmsFragments}
      \cup {[kind |-> "map", has |-> TRUE,
             sec |-> [kind |-> "map", fields |-> [vt_tray |-> f],
                      bad |-> FALSE]] : f \in VtFragments}

\* int(x) for the id strings of the reports
IntOf(x) == IF x = "0" THEN 0 ELSE IF x = "1" THEN 1 ELSE 254

\* d[k] = v
Put(d, k, v) == [x \in DOMAIN d \cup {k} |-> IF x = k THEN v ELSE d[x]]

\* FilamentTray.from_dict(tray): the slot with the attributes of the dict
FromDict(tray) == [material |-> tray.n]

\* AMS(humidity=..., temperature=...): a unit without slots
NewUnit(humidity, temperature) ==
    [humidity |-> humidity, temperature |-> temperature,
     filament_trays |-> EmptyMap]

\* ams.set_filament_tray(tray_index, filament_tray)
SetFilamentTray(ams, tray_index, filament_tray) ==
    [ams EXCEPT !.filament_trays = Put(@, tray_index, filament_tray)]

\* "tray_n = tray.get("n", None)" / "if tray_n:"
TrayLoaded(tray) == "n" \in DOMAIN tray /\ tray.n # ""

RECURSIVE FillTrays(_, _, _)
\* "for tray_id, tray in enumerate(trays)", from position j on
FillTrays(trays, j, ams) ==
    IF j > Len(trays) THEN ams
    ELSE LET tray == trays[j]
             tray_id == IF "id" \in DOMAIN tray THEN IntOf(tray.id)
                        ELSE j - 1
         IN  FillTrays(trays, j + 1,
                       IF TrayLoaded(tray)
                       THEN SetFilamentTray(ams, tray_id, FromDict(tray))
                       ELSE ams)

RECURSIVE FillHub(_, _, _)
\* "for k, v in enumerate(ams_units)", from position i on
FillHub(ams_units, i, hub) ==
    IF i > Len(ams_units) THEN hub
    ELSE LET v == ams_units[i]
             id == IF "id" \in DOMAIN v THEN IntOf(v.id) ELSE i - 1
             trays == IF "tray" \in DOMAIN v THEN v.tray ELSE <<>>
         IN  FillHub(ams_units, i + 1,
                     Put(hub, id, FillTrays(trays, 1, NewUnit(0, 0))))

KeptHub(old) == old


\* "self.ams_hub = AMSHub()"
NewHub(old) == EmptyMap

NoStorageBitsRequired(ams_info) ==
    \/ ams_info = None
    \/ DOMAIN ams_info = {}
    \/ "ams_exist_bits" \in DOMAIN ams_info /\ ams_info.ams_exist_bits = "0"

\* "if not ams_info or ams_info.get("ams_exist_bits", "0") == "0": return"
NoStorage(ams_info) ==
    \/ ams_info = None
    \/ DOMAIN ams_info = {}
    \/ "ams_exist_bits" \notin DOMAIN ams_info
    \/ ams_info.ams_exist_bits = "0"

\* the hub process_ams leaves, given the hub it found and the "ams" field
ProcessAmsHub(old, ams_info) ==
    IF NoStorage(ams_info) THEN NewHub(old)
    ELSE FillHub(IF "ams" \in DOMAIN ams_info THEN ams_info.ams ELSE <<>>,
                 1, NewHub(old))

\* process_ams, Printer.ams_hub included: __get("ams") (the gate, _update,
\* the read), then the hub is built anew
ProcessAms ==
    LET elapsed == ThrottleFires(last_update, pushall_timeout, now)
        fires == ~GateRaises /\ elapsed
        ams_info == DictGet(data, "ams", None)
    IN  /\ last_update' = IF fires THEN now ELSE last_update
        /\ sent' = IF fires THEN PublishCommand(<<>>, PushallDoc) ELSE <<>>
        /\ ams_hub' = IF GateRaises THEN ams_hub
                      ELSE ProcessAmsHub(ams_hub, ams_info)
        /\ ret' = [NoRet EXCEPT !.op = "process_ams", !.raised = GateRaises,
                                !.elapsed = elapsed,
                                !.args = [found |-> ams_hub]]
        /\ last_get' = [time |-> now, pushed |-> Len(sent')]
        /\ last_pub' = IF Len(sent') > 0 THEN now ELSE last_pub
        /\ UNCHANGED <<config, data, connected, subscribed, now, thr,
                       last_seen>>

\* vt_tray: __get("vt_tray"), then FilamentTray.from_dict(tray) whatever
\* was read; what from_dict does with None or with a dict that has no
\* material is its own choice (it raises, or it returns some slot)
VtTray ==
    LET elapsed == ThrottleFires(last_update, pushall_timeout, now)
        fires == ~GateRaises /\ elapsed
        tray == DictGet(data, "vt_tray", None)
    IN  /\ last_update' = IF fires THEN now ELSE last_update
        /\ sent' = IF fires THEN PublishCommand(<<>>, PushallDoc) ELSE <<>>
        /\ \E from_dict_raises \in BOOLEAN :
              /\ (tray # None /\ TrayLoaded(tray)) => ~from_dict_raises
              /\ ret' = [NoRet EXCEPT
                           !.op = "vt_tray",
                           !.raised = GateRaises \/ from_dict_raises,
                           !.error = IF GateRaises THEN "Exception"
                                     ELSE IF from_dict_raises
                                     THEN "from_dict" ELSE "none",
                           !.elapsed = elapsed,
                           !.args = [tray |-> tray,
                                     constructed |-> ~GateRaises]]
        /\ last_get' = [time |-> now, pushed |-> Len(sent')]
        /\ last_pub' = IF Len(sent') > 0 THEN now ELSE last_pub
        /\ UNCHANGED <<config, ams_hub, data, connected, subscribed, now,
                       thr, last_seen>>

NextAms ==
    \/ Disconnect
    \/ \E failure \in BOOLEAN : OnConnect(failure)
    \/ \E p \in StorageReports : OnMessage(p)
    \/ ProcessAms
    \/ VtTray

InitAms == Init /\ pushall_aggressive /\ pushall_timeout = MaxTimeout

\* the storage hub and the external slot against the reported fragments
SpecAms == InitAms /\ [][NextAms]_vars

\* ------------------------------------------------------------ report merge
NextMerge ==
    \/ Disconnect
    \/ \E failure \in BOOLEAN : OnConnect(failure)
    \/ \E p \in Payloads : OnMessage(p)

\* the transport callbacks alone: every payload shape against the snapshot
SpecMerge == Init /\ [][NextMerge]_vars

\* ------------------------------------------------- every kind of operation
NextFrame ==
    \/ Tick
    \/ Disconnect
    \/ \E failure \in BOOLEAN : OnConnect(failure)
    \/ \E p \in StateReports : OnMessage(p)
    \/ \E key \in Keys : Get(key, -1)
    \/ Pushall
    \/ StopPrint
    \/ \E speed_lvl \in Levels : SetPrintSpeed(speed_lvl, TRUE)
    \/ PausePrint
    \/ ProcessAms

\* reads, refreshes, commands and the storage parse next to the reports
SpecFrame == Init /\ [][NextFrame]_vars

\* ------------------------------------------------------------------ claims
\* C1: reports are merged in arrival order and the last write wins: the
\* snapshot holds, for every field some report held, the value of the latest
\* such report, and a read of that field returns it.
C1_LastWriteWins ==
    /\ \A k \in DOMAIN last_seen :
          k \in DOMAIN data /\ data[k] = last_seen[k]
    /\ (ret.op = "get" /\ ~ret.raised /\ ret.seen) => ret.value = ret.expect

C1_Witness ==
    /\ ret.op = "get" /\ ~ret.raised /\ ret.seen
    /\ \E k \in ret.over : ret.value = last_seen[k]

\* C2: without strict mode a read of a field that no merged report held
\* returns the supplied default, and no read raises.
C2_DefaultForUnseen ==
    (~strict /\ ret.op = "get") =>
        /\ ~ret.raised
        /\ ~ret.seen => ret.value = ret.default

C2_Witness ==
    /\ ~strict /\ ret.op = "get" /\ ~ret.seen /\ ret.default = 100
    /\ ready(data) /\ ret.elapsed /\ ~connected

\* C3: two successive reads whose clock readings are less than
\* pushall_timeout apart publish at most one refresh between them.
C3_TwoReadsOneRefresh ==
    (ret.op = "get" /\ ret.gap >= 0 /\ ret.gap < pushall_timeout)
        => ret.prev_pushed + Len(sent) <= 1

C3_Witness ==
    /\ ret.op = "get" /\ ret.gap >= 0 /\ ret.gap < pushall_timeout
    /\ ret.prev_pushed = 1 /\ Len(sent) = 0 /\ connected

\* C4: no two refreshes sent by _on_connect or by reads are less than
\* pushall_timeout apart.
C4_OncePerInterval ==
    (ret.op \in {"get", "on_connect"} /\ Len(sent) > 0 /\ ret.pub_gap >= 0)
        => ret.pub_gap >= pushall_timeout

\* C5: a read made when the interval has elapsed publishes exactly one
\* refresh before it reads the snapshot.
C5_ElapsedReadRefreshes ==
    \A t \in Threads :
        (thr[t].pc = "read" /\ thr[t].elapsed) => thr[t].pushed = 1

\* C5 amended: a read that passes the readiness gate and finds the interval
\* elapsed makes exactly one refresh attempt before it reads the snapshot,
\* and the attempt publishes one message iff the transport is connected; a
\* read that does not find it elapsed, or that the gate rejects, makes none.
C5_OneAttemptBeforeRead ==
    /\ [](\A t \in Threads :
            /\ thr[t].pc = "read" =>
                   thr[t].attempts = (IF thr[t].elapsed THEN 1 ELSE 0)
            /\ thr[t].pc \in {"idle", "check", "set", "push"} =>
                   thr[t].attempts = 0
            /\ thr[t].pushed <= thr[t].attempts)
    /\ [][\A t \in Threads :
            /\ T_Push(t) =>
                   Len(sent') = (IF connected THEN 1 ELSE 0)
            /\ T_Check(t) =>
                   (thr'[t].pc = "set")
                       = (last_update + pushall_timeout <= thr[t].cur)
            /\ (T_Call(t) /\ strict /\ ~ready(data)) =>
                   ret'.raised /\ thr'[t].pc = "idle" /\ sent' = <<>>]_vars

C5_Witness ==
    \E t \in Threads :
        /\ thr[t].pc = "read" /\ thr[t].elapsed
        /\ thr[t].attempts = 1 /\ thr[t].pushed = 1 /\ Len(sent) = 1

\* C6: without strict mode a read made while the snapshot is empty
\* publishes no refresh and leaves the last-refresh timestamp unchanged.
C6_NoSideEffects ==
    [][(GetStep /\ ~strict /\ ~ready(data))
          => last_update' = last_update /\ sent' = <<>>]_vars

\* C6 amended: without strict mode a read made while the snapshot is empty
\* returns the default without raising; it publishes nothing and leaves the
\* timestamp unchanged while the interval has not elapsed, and once it has
\* it sets the timestamp to the current time and publishes one refresh iff
\* the transport is connected.
C6_ThrottleStillApplies ==
    [][(GetStep /\ ~strict /\ ~ready(data)) =>
          /\ ~ret'.raised /\ ret'.value = ret'.default
          /\ IF last_update + pushall_timeout <= now
             THEN /\ last_update' = now
                  /\ Len(sent') = (IF connected THEN 1 ELSE 0)
             ELSE last_update' = last_update /\ sent' = <<>>]_vars

C6_Witness ==
    /\ ~strict /\ ret.op = "get" /\ ~ready(data)
    /\ ret.elapsed /\ Len(sent) = 1 /\ last_update = now /\ now > 0

\* C7: in strict mode a read made while the snapshot is empty raises,
\* publishes nothing and leaves the snapshot and the timestamp unchanged.
C7_StrictNotReady ==
    [][(GetStep /\ strict /\ ~ready(data))
          => /\ ret'.raised /\ sent' = <<>>
             /\ UNCHANGED <<data, last_update>>]_vars

C7_Witness ==
    /\ strict /\ ret.op = "get" /\ ret.raised
    /\ ~ready(data) /\ ret.elapsed /\ connected

\* C8: concurrent readers whose clock readings are less than pushall_timeout
\* apart publish at most one refresh between them.
C8_NoDuplicateRefresh ==
    \A t1, t2 \in Threads :
        (t1 # t2 /\ thr[t1].pushed = 1 /\ thr[t2].pushed = 1) =>
            \/ thr[t1].cur - thr[t2].cur >= pushall_timeout
            \/ thr[t2].cur - thr[t1].cur >= pushall_timeout

\* C9: a payload that is not a report of the expected shape makes
\* _on_message return without raising and leaves the snapshot as it was.
C9_MalformedIgnored ==
    [][\A p \in Payloads :
          (OnMessage(p) /\ ~WellFormed(p))
              => ~ret'.raised /\ data' = data]_vars

\* C10: the snapshot starts empty and no step removes a field from it, so
\* ready() never goes from true back to false.
C10_NeverCleared ==
    /\ data = EmptyMap
    /\ [][/\ \A k \in DOMAIN data : k \in DOMAIN data'
          /\ ready(data) => ready(data')]_vars

C10_Witness ==
    /\ DOMAIN data = Keys
    /\ ret.op = "on_message" /\ ret.raised

\* the operations that end in __publish_command
CommandOps ==
    {"pushall", "stop_print", "start_print_3mf", "start_print_min",
     "calibration", "calibrate_printer", "set_fan_speed", "turn_light",
     "set_print_speed", "set_print_speed_lvl"}

\* C11: a publish made while the transport is not connected returns false,
\* hands nothing to the transport and leaves the snapshot (and the rest of
\* the client) as it was; a publish made while it is connected, whatever
\* failed before, hands exactly one message on the command topic to the
\* transport.
C11_NotConnectedFailsFast ==
    [][(ret'.op \in CommandOps /\ ~ret'.raised) =>
          IF connected
          THEN /\ Len(sent') = 1
               /\ sent'[1].topic = command_topic
               /\ data' = data
          ELSE /\ sent' = <<>>
               /\ ~ret'.ok
               /\ data' = data
               /\ last_update' = last_update
               /\ connected' = connected
               /\ subscribed' = subscribed]_vars

C11_Witness ==
    /\ ret.op = "stop_print" /\ ~ret.ok /\ ~connected /\ sent = <<>>
    /\ ready(data)
    /\ subscribed # {}

\* C15: for skip_objects empty or not given the published project_file
\* document has no skip_objects key, and for a non-empty list it carries
\* that list.
C15_SkipKeyAbsent ==
    (ret.op = "start_print_3mf" /\ sent # <<>>) =>
        IF ret.args.skip_objects \in {JNull, JList(<<>>)}
        THEN "skip_objects" \notin DOMAIN sent[1].doc
        ELSE /\ "skip_objects" \in DOMAIN sent[1].doc
             /\ sent[1].doc.skip_objects = ret.args.skip_objects

\* C15 amended: for skip_objects empty or not given the published
\* project_file document carries the skip_objects key with the value null
\* (never an empty list), and for a non-empty list it carries that list.
C15_SkipKeyNull ==
    (ret.op = "start_print_3mf" /\ sent # <<>>) =>
        /\ "skip_objects" \in DOMAIN sent[1].doc
        /\ sent[1].doc.skip_objects # JList(<<>>)
        /\ sent[1].doc.skip_objects =
              (IF ret.args.skip_objects \in {JNull, JList(<<>>)}
               THEN JNull ELSE ret.args.skip_objects)

C15_Witness ==
    /\ ret.op = "start_print_3mf" /\ sent # <<>>
    /\ ret.args.skip_objects = JList(<<>>)
    /\ sent[1].doc.skip_objects = JNull

\* C16: the project_file document start_print_3mf publishes for plate N and
\* file F has param "Metadata/plate_<N>.gcode", file F, url "ftp:///<F>",
\* layer_inspect false and sequence_id "10000000"; it is published iff the
\* transport is connected.
C16_ProjectFileFields ==
    ret.op = "start_print_3mf" =>
        /\ (sent # <<>>) = connected
        /\ sent # <<>> =>
              /\ Len(sent) = 1
              /\ sent[1].doc.domain = "print"
              /\ sent[1].doc.command = "project_file"
              /\ sent[1].doc.param =
                    "Metadata/plate_" \o ToString(ret.args.plate_number)
                        \o ".gcode"
              /\ ret.args.plate_number = 2 =>
                    sent[1].doc.param = "Metadata/plate_2.gcode"
              /\ sent[1].doc.file = ret.args.filename
              /\ sent[1].doc.url = "ftp:///" \o ret.args.filename
              /\ ret.args.filename = "dir/b c.3mf" =>
                    sent[1].doc.url = "ftp:///dir/b c.3mf"
              /\ sent[1].doc.layer_inspect = JBool(FALSE)
              /\ sent[1].doc.sequence_id = "10000000"

C16_Witness ==
    /\ ret.op = "start_print_3mf" /\ sent # <<>>
    /\ ret.args.plate_number = 2
    /\ ret.args.filename = "dir/b c.3mf"

\* C17: the start-print document published by Printer.start_print_min has
\* the use_ams, ams_mapping and skip_objects of the arguments of those
\* names (an empty skip list normalised away), and its bed_leveling,
\* flow_cali and vibration_cali are the same whatever those arguments are.
C17_MinPassesArguments ==
    (ret.op = "start_print_min" /\ sent # <<>>) =>
        /\ sent[1].doc.use_ams = ret.args.use_ams
        /\ sent[1].doc.ams_mapping = ret.args.ams_mapping
        /\ sent[1].doc.skip_objects =
              (IF ret.args.skip_objects = JList(<<>>)
               THEN JNull ELSE ret.args.skip_objects)
        /\ sent[1].doc.bed_leveling = JBool(TRUE)
        /\ sent[1].doc.flow_cali \in {JBool(FALSE), JBool(TRUE)}
        /\ sent[1].doc.vibration_cali \in {JBool(FALSE), JBool(TRUE)}

\* C18: the option of the published calibration document is
\* 2*bed + 4*vibration + 8*motor for each of the eight flag combinations,
\* through calibration and through calibrate_printer alike; bed and
\* vibration without motor give 6.
C18_CalibrationOption ==
    (ret.op \in {"calibration", "calibrate_printer"}) =>
        /\ (sent # <<>>) = connected
        /\ sent # <<>> =>
              /\ sent[1].doc.command = "calibration"
              /\ sent[1].doc.option =
                      2 * (IF ret.args.bed THEN 1 ELSE 0)
                    + 4 * (IF ret.args.vibration THEN 1 ELSE 0)
                    + 8 * (IF ret.args.motor THEN 1 ELSE 0)
              /\ sent[1].doc.option % 2 = 0
              /\ (ret.args.bed /\ ~ret.args.motor /\ ret.args.vibration)
                    => sent[1].doc.option = 6

C18_Witness ==
    /\ ret.op = "calibrate_printer" /\ sent # <<>>
    /\ ret.args.bed /\ ~ret.args.motor /\ ret.args.vibration
    /\ sent[1].doc.option = 6

\* C19: a fan speed is accepted exactly when it is an int in 0..255 or a
\* float in 0.0..1.0, both ends included; any other speed raises the
\* validation error and publishes nothing.
C19_AcceptsExactlyRange ==
    ret.op = "set_fan_speed" =>
        LET speed == ret.args.speed
            inRange == IF speed.t = "int" THEN speed.n \in 0 .. 255
                       ELSE speed.n \in 0 .. FloatDen
        IN  /\ inRange => ~ret.raised
            /\ ~inRange => ret.raised /\ ret.error = "ValueError"
                              /\ sent = <<>>

\* C20: the line published for an accepted fan speed is
\* "M106 P<fan> S<v>" with v in 0..255: the int itself, and
\* round(255 * f) for a float f.
C20_ValueInByteRange ==
    (ret.op = "set_fan_speed" /\ sent # <<>>) =>
        LET speed == ret.args.speed
            v == IF speed.t = "int" THEN speed.n
                 ELSE Round(255 * speed.n, FloatDen)
            line == "M106 P" \o ToString(ret.args.fan_num) \o " S"
                        \o ToString(v)
        IN  /\ v \in 0 .. 255
            /\ sent[1].doc.command = "gcode_line"
            /\ sent[1].doc.param \in {line, line \o "\n"}

\* C12: pause_print with the snapshot's gcode state paused returns true and
\* publishes no pause command, resume_print with it running returns true
\* and publishes no resume command; with any other gcode state the command
\* is handed to __publish_command after whatever refresh the read made, and
\* the call returns its result (true only if the command was published,
\* false when the transport is not connected).  The call raises only for a
\* snapshot that holds no gcode state at all (strict mode, nothing merged).
C12_NoOpWhenAlreadyThere ==
    \A op \in {"pause_print", "resume_print"} :
        ret.op = op =>
            LET doc == IF op = "pause_print" THEN PauseDoc ELSE ResumeDoc
                already == IF op = "pause_print" THEN "PAUSE" ELSE "RUNNING"
                code == IF "gcode_state" \in DOMAIN data
                        THEN data["gcode_state"] ELSE -1
                cmds == {i \in 1 .. Len(sent) : sent[i].doc = doc}
            IN  /\ ret.raised => (data = EmptyMap /\ strict /\ sent = <<>>)
                /\ ~ret.raised =>
                      /\ ret.state = (IF code = 1 THEN "PAUSE"
                                      ELSE IF code = 0 THEN "RUNNING"
                                      ELSE "UNKNOWN")
                      /\ ret.state = already => (ret.ok /\ cmds = {})
                      /\ ret.state # already =>
                            /\ cmds = (IF connected THEN {Len(sent)} ELSE {})
                            /\ ret.ok => cmds # {}

C12_Witness ==
    /\ ret.op = "pause_print" /\ ret.state = "PAUSE" /\ ret.ok
    /\ connected /\ Len(sent) = 1 /\ sent[1].doc = PushallDoc

\* C13: send_gcode with a list is all or nothing: if any line fails the
\* validator the call raises the invalid-command error and nothing is
\* published; otherwise the one message handed to __publish_command is a
\* gcode_line command whose param is the lines in order with a newline
\* between neighbours.
C13_ListAllOrNothing ==
    (ret.op = "send_gcode" /\ ret.args.t = "list") =>
        LET list == ret.args.l
            n == Len(list)
            off[i \in 1 .. n] ==
                IF i = 1 THEN 0 ELSE off[i - 1] + Len(list[i - 1]) + 1
        IN  IF \E i \in 1 .. n : ~is_valid_gcode(list[i])
            THEN ret.raised /\ ret.error = "ValueError" /\ sent = <<>>
            ELSE /\ ~ret.raised
                 /\ (sent # <<>>) = connected
                 /\ ret.ok => sent # <<>>
                 /\ sent # <<>> =>
                       /\ Len(sent) = 1
                       /\ sent[1].doc.domain = "print"
                       /\ sent[1].doc.command = "gcode_line"
                       /\ Len(sent[1].doc.param) =
                             (IF n = 0 THEN 0 ELSE off[n] + Len(list[n]))
                       /\ \A i \in 1 .. n :
                             /\ SubSeq(sent[1].doc.param, off[i] + 1,
                                       off[i] + Len(list[i])) = list[i]
                             /\ i > 1 => sent[1].doc.param[off[i]] = "\n"

C13_Witness ==
    /\ ret.op = "send_gcode" /\ ret.args.t = "list"
    /\ Len(ret.args.l) = 2
    /\ is_valid_gcode(ret.args.l[1])
    /\ ~is_valid_gcode(ret.args.l[2])
    /\ ret.raised /\ sent = <<>> /\ connected

\* C14: is_valid_gcode(line) is true exactly when the part of the line
\* before its first ';', with the whitespace around it removed, is not
\* empty, begins with G or M and a digit, and each of its whitespace-free
\* runs after the first is one uppercase letter, an optional '-', digits
\* and optionally a '.' and digits.
C14_ValidatorGrammar ==
    ret.op = "is_valid_gcode" =>
        LET line == ret.args.s
            semis == {i \in 1 .. Len(line) : line[i] = ";"}
            last == IF semis = {} THEN Len(line)
                    ELSE (CHOOSE i \in semis : \A j \in semis : i <= j) - 1
            ink == {i \in 1 .. last : line[i] \notin Whitespace}
            lo == CHOOSE i \in ink : \A j \in ink : i <= j
            hi == CHOOSE i \in ink : \A j \in ink : i >= j
            Starts(i) == i = lo \/ line[i - 1] \in Whitespace
            Ends(j) == j = hi \/ line[j + 1] \in Whitespace
            Run(i, j) ==
                /\ i <= j /\ Starts(i) /\ Ends(j)
                /\ \A k \in i .. j : k \in ink
            Param(i, j) ==
                \E neg \in {0, 1}, a \in 1 .. Len(line), b \in 0 .. Len(line) :
                    /\ j - i = neg + a + (IF b = 0 THEN 0 ELSE 1 + b)
                    /\ line[i] \in Uppers
                    /\ neg = 1 => line[i + 1] = "-"
                    /\ \A k \in 1 .. a : line[i + neg + k] \in Digits
                    /\ b > 0 =>
                          /\ line[i + neg + a + 1] = "."
                          /\ \A k \in 1 .. b :
                                line[i + neg + a + 1 + k] \in Digits
            valid ==
                /\ ink # {}
                /\ line[lo] \in {"G", "M"}
                /\ lo + 1 <= last
                /\ line[lo + 1] \in Digits
                /\ \A i \in ink, j \in ink :
                      (i # lo /\ Run(i, j)) => Param(i, j)
        IN  /\ ret.ok = valid
            /\ line = <<"G", "1", " ", "X", "1", "0", " ", "Y", "-", "5",
                        ".", "5">> => ret.ok
            /\ line = <<"M", "1", "0", "4", " ", "S", "2", "0", "0", " ",
                        ";", " ", "s", "e", "t", " ", "t", "e", "m", "p">>
                  => ret.ok
            /\ line = <<"G", "1", " ", "X", "1", "0", "Y", "5">> => ~ret.ok
            /\ line = <<>> => ~ret.ok
            /\ line = <<";", " ", "c", "o", "m", "m", "e", "n", "t", " ",
                        "o", "n", "l", "y">> => ~ret.ok

C14_Witness ==
    /\ ret.op = "is_valid_gcode" /\ ret.ok
    /\ ret.args.s = <<"M", "1", "0", "4", " ", "S", "2", "0", "0", " ",
                      ";", " ", "s", "e", "t", " ", "t", "e", "m", "p">>

\* C21: a print_speed command is published only with a level in 0..3, and
\* a request with any other level fails and publishes nothing.
C21_LevelValidated ==
    /\ \A i \in 1 .. Len(sent) :
          ("command" \in DOMAIN sent[i].doc
              /\ sent[i].doc.command = "print_speed")
              => sent[i].doc.param \in {"0", "1", "2", "3"}
    /\ (ret.op \in {"set_print_speed", "set_print_speed_lvl"}
           /\ ret.args.speed_lvl \notin 0 .. 3)
          => ~ret.ok /\ sent = <<>>

AmsInfo == DictGet(data, "ams", None)

\* the unit list of a fragment
UnitList(f) == IF f # None /\ "ams" \in DOMAIN f THEN f.ams ELSE <<>>

\* the identifier of the k-th unit of a list: its "id", else its position
UnitIdAt(units, k) == IF "id" \in DOMAIN units[k] THEN IntOf(units[k].id) ELSE k - 1

\* the slot list of a unit
TrayList(v) == IF "tray" \in DOMAIN v THEN v.tray ELSE <<>>

\* the identifier of the j-th slot of a list: its "id", else its position
TrayIdAt(trays, j) == IF "id" \in DOMAIN trays[j] THEN IntOf(trays[j].id) ELSE j - 1

\* every unit of the list is in the hub, and a slot is in its unit exactly
\* when a slot fragment with that identifier carries a non-empty material
\* (of two units with one identifier the later one is the unit)
UnitsAndSlots(units) ==
    \A k \in 1 .. Len(units) :
        LET id == UnitIdAt(units, k)
            trays == TrayList(units[k])
        IN  /\ id \in DOMAIN ams_hub
            /\ (\A k2 \in k + 1 .. Len(units) : UnitIdAt(units, k2) # id)
                  => \A s \in DOMAIN ams_hub[id].filament_trays \cup {TrayIdAt(trays, j) : j \in 1 .. Len(trays)} :
                        s \in DOMAIN ams_hub[id].filament_trays
                           <=> \E j \in 1 .. Len(trays) : TrayIdAt(trays, j) = s /\ "n" \in DOMAIN trays[j] /\ trays[j].n # ""

\* C23: after a parse, a storage fragment that is absent or whose
\* unit-existence bitmask is the zero value leaves a hub without units;
\* any other fragment leaves every unit of its unit list in the hub, with a
\* slot present exactly when its material identifier is present and
\* non-empty.
C23_ParseByBitmask ==
    ret.op = "process_ams" /\ ~ret.raised =>
        IF AmsInfo = None \/ ("ams_exist_bits" \in DOMAIN AmsInfo /\ AmsInfo.ams_exist_bits = "0")
        THEN ams_hub = EmptyMap
        ELSE UnitsAndSlots(UnitList(AmsInfo))

\* C23 amended: after a parse, a storage fragment that is absent or empty,
\* or whose unit-existence bitmask is absent or the zero value, leaves a hub
\* without units; any other fragment leaves every unit of its unit list in
\* the hub, with a slot present exactly when its material identifier is
\* present and non-empty.
C23_ParseByBitmaskOrDefault ==
    ret.op = "process_ams" /\ ~ret.raised =>
        IF \/ AmsInfo = None
           \/ DOMAIN AmsInfo = {}
           \/ "ams_exist_bits" \notin DOMAIN AmsInfo
           \/ AmsInfo.ams_exist_bits = "0"
        THEN ams_hub = EmptyMap
        ELSE UnitsAndSlots(UnitList(AmsInfo))

\* a parse left a unit without slots, its only slot having an empty material
C23_Witness ==
    /\ ret.op = "process_ams"
    /\ AmsInfo = [ams_exist_bits |-> "1", ams |-> <<[tray |-> <<[n |-> ""]>>]>>]
    /\ DOMAIN ams_hub = {0}
    /\ DOMAIN ams_hub[0].filament_trays = {}

\* C24: the hub a parse leaves is exactly the hub derivable from the
\* snapshot's current storage fragment, whatever hub the parse found; and a
\* parse that directly follows a parse leaves an equal hub.
C24_TotalReplacement ==
    /\ [](ret.op = "process_ams" => ams_hub = ProcessAmsHub(EmptyMap, AmsInfo))
    /\ [][(ret.op = "process_ams" /\ ret'.op = "process_ams") => ams_hub' = ams_hub]_vars

\* a parse found a hub with units and left a different hub
C24_Witness ==
    /\ ret.op = "process_ams"
    /\ ret.args.found # EmptyMap
    /\ ams_hub # ret.args.found
    /\ ams_hub # EmptyMap

\* C25: the external slot is constructed only when the dedicated fragment
\* carries a non-empty material identifier; on a fragment that was never
\* reported, or whose identifier is empty, no construction is attempted.
C25_ExternalSlotGuarded ==
    ret.op = "vt_tray" =>
        (ret.args.constructed <=> (ret.args.tray # None /\ "n" \in DOMAIN ret.args.tray /\ ret.args.tray.n # ""))

\* C26: a successful connection result subscribes to device/<serial>/report
\* and, with aggressive sync on, then publishes {"pushing": {"command":
\* "pushall"}} to the request topic, after the subscription; with aggressive
\* sync off it publishes nothing; a failed result neither subscribes nor
\* publishes.
C26_SubscribeThenPushall ==
    /\ [](ret.op = "on_connect" =>
            IF ret.args.failure
            THEN ret.args.calls = <<>> /\ sent = <<>>
            ELSE /\ "device/SERIAL/report" \in subscribed
                 /\ ret.args.calls[1] = [call |-> "subscribe", topic |-> "device/SERIAL/report"]
                 /\ IF pushall_aggressive
                    THEN /\ Len(ret.args.calls) = 2
                         /\ ret.args.calls[2] = [call |-> "publish", topic |-> "device/SERIAL/request", doc |-> [domain |-> "pushing", command |-> "pushall"]]
                         /\ sent = <<[topic |-> "device/SERIAL/request", doc |-> [domain |-> "pushing", command |-> "pushall"]]>>
                    ELSE Len(ret.args.calls) = 1 /\ sent = <<>>)
    /\ [][(ret'.op = "on_connect" /\ ret'.args.failure) => subscribed' = subscribed]_vars

\* a successful result with aggressive sync: subscription, then the refresh
C26_Witness ==
    /\ ret.op = "on_connect"
    /\ ~ret.args.failure
    /\ pushall_aggressive
    /\ Len(sent) = 1
    /\ "device/SERIAL/report" \in subscribed

\* C27: the merge is a shallow, key-wise overwrite restricted to the print
\* section: a payload without a print key leaves the whole snapshot
\* unchanged, and a payload with a print section changes only the fields
\* named in that section (every other field keeps its presence and value).
C27_OnlyNamedFields ==
    [][\A p \in Payloads :
          (ret'.op = "on_message" /\ OnMessage(p)) =>
              IF ~(p.kind = "map" /\ p.has)
              THEN data' = data
              ELSE \A k \in (DOMAIN data \cup DOMAIN data') \ DOMAIN p.sec.fields :
                      k \in DOMAIN data /\ k \in DOMAIN data' /\ data'[k] = data[k]]_vars

\* a report naming one field changed it and left the other field alone
C27_Witness ==
    /\ ret.op = "on_message" /\ ~ret.raised
    /\ ret.over = {"mc_percent"}
    /\ DOMAIN data = {"gcode_state", "mc_percent"}

\* C28: the merge of an inbound report is the only step that changes the
\* snapshot: no accessor read, refresh request, command operation
\* (successful, failed, or rejected by validation) or storage parse adds,
\* removes or changes a field of it.
C28_MergeIsSoleMutation ==
    [][data' # data => ret'.op = "on_message"]_vars

\* a command rejected by validation ran on a snapshot that holds a field
C28_Witness ==
    /\ ret.op = "set_print_speed" /\ ret.raised
    /\ "gcode_state" \in DOMAIN data

RECURSIVE NewlineLines(_)
\* the newline-separated lines of a str
NewlineLines(s) ==
    LET at == {i \in 1 .. Len(s) : s[i] = "\n"}
    IN  IF at = {} THEN {s}
        ELSE LET first == CHOOSE i \in at : \A j \in at : i <= j
             IN  {SubSeq(s, 1, first - 1)} \cup NewlineLines(SubSeq(s, first + 1, Len(s)))

\* C29: for every argument send_gcode accepts, a str or a list, with
\* embedded newlines or ';' comments or without, each newline-separated line
\* of the published gcode_line param satisfies the validator on its own.
C29_EveryPublishedLineValid ==
    (ret.op = "send_gcode" /\ sent # <<>>) =>
        \A line \in NewlineLines(sent[1].doc.param) : is_valid_gcode(line)

\* C30: the last-refresh timestamp changes only inside a read whose throttle
\* fires, where it is set to the current time of the read before the
\* refresh publish is attempted; it stays advanced when that publish fails
\* for lack of a connection; a read whose time is within the interval after
\* the timestamp attempts no refresh; and a refresh sent by _on_connect or
\* by a direct pushall() does not move the timestamp.
C30_TimestampOnlyInFiringRead ==
    [][/\ last_update' # last_update =>
             /\ thr[MainThread].pc = "set" /\ thr[MainThread].elapsed
             /\ thr'[MainThread].pc = "push"
             /\ thr'[MainThread].attempts = 0 /\ sent' = <<>>
       /\ (thr[MainThread].pc = "set" /\ thr'[MainThread].pc = "push") =>
             last_update' = thr[MainThread].cur
       /\ (thr[MainThread].pc = "push" /\ thr'[MainThread].pc = "read") =>
             /\ thr'[MainThread].attempts = 1
             /\ Len(sent') = (IF connected THEN 1 ELSE 0)
             /\ last_update' = thr[MainThread].cur
       /\ (thr[MainThread].pc = "check" /\ thr'[MainThread].pc # "check"
             /\ thr[MainThread].cur < last_update + pushall_timeout) =>
             thr'[MainThread].pc = "read" /\ thr'[MainThread].attempts = 0
       /\ ret'.op \in {"on_connect", "pushall"} =>
             last_update' = last_update]_vars

\* a firing read whose publish failed: the timestamp moved all the same
C30_Witness ==
    /\ thr[MainThread].pc = "read" /\ thr[MainThread].elapsed
    /\ thr[MainThread].attempts = 1 /\ thr[MainThread].pushed = 0
    /\ last_update = thr[MainThread].cur /\ last_update > 0
    /\ ~connected


==============================================================================
